---- MODULE Spec2Model ----
\* A model of the recurring-task scheduler of src/src/schedule/async_scheduler.py:
\* the ScheduledTask record, the AsyncScheduler registry, the dispatch loop
\* (process_tasks) and the execution runner (run_task).
\*
\* Time is a natural-number clock `now` (datetime.now()); one unit is the
\* loop's sleep interval.  A cron expression is abstracted to its period in
\* clock units: croniter(expr, base).get_next() is the first multiple of the
\* period strictly after base.  The periods and the retry delays of the
\* registered jobs are a few units long, so that several cycles and a whole
\* retry sequence fit below MaxTime; the dataclass defaults (3 retries, 60
\* units of delay) are kept for the records registered without a policy.
\*
\* Task records are objects on a heap, because run_task keeps a reference to
\* the record it was given while the registry entry under the same name may
\* be replaced.  A coroutine of the event loop runs without interruption from
\* one await to the next, so each action is one such stretch of code:
\*   pc    where process_tasks is suspended: "idle" (no loop), "gather",
\*         "sleep" (until wakeAt), "backoff" (the sleep of the except branch,
\*         until wakeAt);
\*   runs  the run_task coroutines of the current gather, each "start" (not
\*         yet run), "body" (awaiting the work handle), "returned" or
\*         "raised" (the work handle ended, run_task not yet resumed);
\*   results  the values the finished run_task coroutines returned to the
\*         gather;
\*   listed  the list a caller of list_tasks holds: not yet called ("none"),
\*         as returned, or after the caller wrote into it.
EXTENDS Integers, Sequences, FiniteSets, TLC

VARIABLES now, heap, nextId, tasks, order, running, shutdown, pc, wakeAt,
          runs, results, unregisterRaised, listed

vars == <<now, heap, nextId, tasks, order, running, shutdown, pc, wakeAt,
          runs, results, unregisterRaised, listed>>

\* ---------------------------------------------------------------- bounds
\* The clock stops advancing at MaxTime.
MaxTime == 5
\* At most MaxObjects ScheduledTask objects are ever constructed.
MaxObjects == 3

\* Where time goes on for ever, a work handle raises only while the record's
\* error_count is below MaxErrors: the counter has no bound of its own.
MaxErrors == 2

\* ------------------------------------------------------- program constants
\* Optional[datetime] = None (last_run before the first success): a value no
\* clock reading takes.
NoTime == -1000
\* ScheduledTask.max_retries default.
DefaultMaxRetries == 3
\* ScheduledTask.retry_delay default (seconds).
DefaultRetryDelay == 60
\* await asyncio.sleep(1) at the end of a tick.
TickInterval == 1
\* await asyncio.sleep(5) in the except branch of the loop.
BackoffInterval == 5

\* ------------------------------------------------------------ input sets
Names == {"a", "b"}
\* The jobs the application registers: a name and its cron expression, given
\* by its period in clock units.  Either registration path takes any of them.
Jobs == { [name |-> "a", cron |-> 2], [name |-> "b", cron |-> 3] }
\* The jobs registered with a retry policy of their own, assigned to the
\* record add_task returned.
JobsWithPolicy ==
    { [name |-> "a", cron |-> 2, max_retries |-> 1, retry_delay |-> 1],
      [name |-> "a", cron |-> 2, max_retries |-> 2, retry_delay |-> 1] }

\* The jobs registered where time goes on for ever: one with a retry after
\* a delay of the order of its period, one without retries.
LiveJobs ==
    { [name |-> "a", cron |-> 2, max_retries |-> 1, retry_delay |-> 1],
      [name |-> "b", cron |-> 3, max_retries |-> 0, retry_delay |-> 1] }

\* The names of the jobs whose function is a coroutine function (`async
\* def`); the function of every other job is a plain function.
CoroutineFunctions == {"a"}

\* Registrations the application gets wrong: the cron expression does not
\* parse (written as the period 0, which no schedule has).
InvalidJobs == { [name |-> "a", cron |-> 0] }

\* ------------------------------------------------------------ TaskStatus
PENDING == "pending"
RUNNING == "running"
COMPLETED == "completed"
FAILED == "failed"

\* ------------------------------------------------------- ScheduledTask
\* croniter(cron_expression, base_time): the constructor raises
\* CroniterBadCronError for an expression that does not parse.
is_valid(cron) == cron > 0

\* A resolver that returns the base time itself when it is an occurrence.
next_occurrence_AtOrAfter(cron, base) == ((base + cron - 1) \div cron) * cron

\* croniter(cron_expression, base_time).get_next(datetime)
next_occurrence(cron, base) == ((base \div cron) + 1) * cron

\* ScheduledTask.update_next_run: base_time = self.last_run or datetime.now()
update_next_run(task, t) ==
    LET base_time == IF task.last_run # NoTime THEN task.last_run ELSE t
    IN  [task EXCEPT !.next_run = next_occurrence(task.cron_expression, base_time)]

\* The dataclass constructor followed by __post_init__.
NewTask(name, cron, t) ==
    update_next_run(
        [ name            |-> name,
          cron_expression |-> cron,
          retries         |-> 0,
          max_retries     |-> DefaultMaxRetries,
          retry_delay     |-> DefaultRetryDelay,
          last_run        |-> NoTime,
          next_run        |-> NoTime,
          status          |-> PENDING,
          error_count     |-> 0 ], t)

\* ScheduledTask.__post_init__: is_async = inspect.iscoroutinefunction(func),
\* whatever the caller passed for it; the function is that of the record's
\* job.
is_async(task) == task.name \in CoroutineFunctions

\* A guard that admits a task only after its next_run has passed.
should_run_StrictlyAfter(task, t) ==
    IF task.next_run = NoTime THEN FALSE ELSE t > task.next_run

\* ScheduledTask.should_run
should_run(task, t) ==
    IF task.next_run = NoTime THEN FALSE ELSE t >= task.next_run

\* ----------------------------------------------------------- list_tasks
\* datetime.isoformat(): the text of a time (a value of another type than
\* the time itself).
isoformat(t) == <<"T", t>>
\* Python's None in a dict list_tasks returns.
None == << >>

\* A dict that gives each run time under the other's key.
Snapshot_SwapsRunTimes(task) ==
    [ name        |-> task.name,
      cron        |-> task.cron_expression,
      status      |-> task.status,
      last_run    |-> IF task.next_run # NoTime THEN isoformat(task.next_run) ELSE None,
      next_run    |-> IF task.last_run # NoTime THEN isoformat(task.last_run) ELSE None,
      error_count |-> task.error_count,
      retries     |-> task.retries ]

\* The dict list_tasks builds for one record; task.status.value is the
\* string the status is written as here.
Snapshot(task) ==
    [ name        |-> task.name,
      cron        |-> task.cron_expression,
      status      |-> task.status,
      last_run    |-> IF task.last_run # NoTime THEN isoformat(task.last_run) ELSE None,
      next_run    |-> IF task.next_run # NoTime THEN isoformat(task.next_run) ELSE None,
      error_count |-> task.error_count,
      retries     |-> task.retries ]

\* No list is held by a caller.
NoList == [at |-> "none", value |-> << >>]

\* ------------------------------------------------------------------ Init
\* AsyncScheduler.__init__
Init ==
    /\ now = 0
    /\ heap = << >>
    /\ nextId = 1
    /\ tasks = << >>
    /\ order = << >>
    /\ running = FALSE
    /\ shutdown = FALSE
    /\ pc = "idle"
    /\ wakeAt = NoTime
    /\ runs = << >>
    /\ results = << >>
    /\ unregisterRaised = 0
    /\ listed = NoList

\* -------------------------------------------------------------- helpers
InFlight == DOMAIN runs

Range(f) == { f[x] : x \in DOMAIN f }

\* A registry that keeps the record it already holds under the name.
RegistryPut_KeepFirst(reg, name, id) ==
    [ n \in DOMAIN reg \cup {name} |-> IF n \in DOMAIN reg THEN reg[n] ELSE id ]

\* self.tasks[task_name] = task
RegistryPut(reg, name, id) ==
    [ n \in DOMAIN reg \cup {name} |-> IF n = name THEN id ELSE reg[n] ]

\* A dict keeps the position of a key that is assigned again.
OrderPut(ord, name) ==
    IF name \in Range(ord) THEN ord ELSE Append(ord, name)

\* The heap holds the records something still refers to: the registry, or
\* the frame of a run_task that was handed the record.
Reachable(h, reg, rs) ==
    [ id \in DOMAIN h \cap (Range(reg) \cup DOMAIN rs) |-> h[id] ]

\* ---------------------------------------------------------- registration
\* The part schedule().decorator and add_task share: construct the record,
\* then store it under its name.
Register(name, cron) ==
    /\ is_valid(cron)
    /\ nextId <= MaxObjects
    /\ tasks' = RegistryPut(tasks, name, nextId)
    /\ heap' = Reachable(heap @@ (nextId :> NewTask(name, cron, now)), tasks', runs)
    /\ nextId' = nextId + 1
    /\ order' = OrderPut(order, name)
    /\ UNCHANGED <<now, running, shutdown, pc, wakeAt, runs, results,
                   unregisterRaised, listed>>

\* AsyncScheduler.schedule(cron, name)(func)
Schedule(name, cron) == Register(name, cron)

\* AsyncScheduler.add_task(func, cron, name); everyMinute ... monthlyOn call it.
AddTask(name, cron) == Register(name, cron)

\* task = scheduler.add_task(...); task.max_retries = m; task.retry_delay = d:
\* add_task followed, before the caller suspends, by the assignments to the
\* record it returned.
AddTaskWithPolicy(name, cron, policy) ==
    /\ is_valid(cron)
    /\ nextId <= MaxObjects
    /\ tasks' = RegistryPut(tasks, name, nextId)
    /\ heap' = Reachable(heap @@ (nextId :>
                   [NewTask(name, cron, now) EXCEPT
                       !.max_retries = policy.max_retries,
                       !.retry_delay = policy.retry_delay]), tasks', runs)
    /\ nextId' = nextId + 1
    /\ order' = OrderPut(order, name)
    /\ UNCHANGED <<now, running, shutdown, pc, wakeAt, runs, results,
                   unregisterRaised, listed>>

\* A registration that stores the name although the constructor raised.
StoreUnlessRaised_StoresAnyway(reg, name, id, raised) == RegistryPut(reg, name, id)

\* The constructor call comes before `self.tasks[task_name] = task`: when it
\* raises, the assignment is not executed.
StoreUnlessRaised(reg, name, id, raised) ==
    IF raised THEN reg ELSE RegistryPut(reg, name, id)

\* A registration whose cron expression does not parse: the dataclass
\* constructor creates the object and __post_init__ raises out of
\* update_next_run, so the object is dropped and the exception leaves the
\* registration call.
RegisterInvalidCron(name, cron) ==
    /\ ~is_valid(cron)
    /\ nextId <= MaxObjects
    /\ nextId' = nextId + 1
    /\ tasks' = StoreUnlessRaised(tasks, name, nextId, TRUE)
    /\ heap' = Reachable(heap, tasks', runs)
    /\ UNCHANGED <<now, order, running, shutdown, pc, wakeAt, runs, results,
                   unregisterRaised, listed>>

\* AsyncScheduler.schedule(cron, name)(func) with such an expression.
ScheduleInvalidCron(name, cron) == RegisterInvalidCron(name, cron)

\* AsyncScheduler.add_task(func, cron, name) with such an expression.
AddTaskInvalidCron(name, cron) == RegisterInvalidCron(name, cron)

\* scheduler.unregister(name), called while the record registered under name
\* is being invoked.  AsyncScheduler defines no such attribute: the call
\* raises AttributeError and changes nothing.  unregisterRaised keeps the
\* record the call was to remove (0: no such call yet).
Unregister(name) ==
    /\ unregisterRaised = 0
    /\ name \in DOMAIN tasks
    /\ tasks[name] \in InFlight
    /\ runs[tasks[name]] = "body"
    /\ unregisterRaised' = tasks[name]
    /\ UNCHANGED <<now, heap, nextId, tasks, order, running, shutdown, pc,
                   wakeAt, runs, results, listed>>

\* AsyncScheduler.list_tasks: one dict per record of self.tasks.values(), in
\* the order of the dict.
ListTasks ==
    /\ listed = NoList
    /\ listed' = [at |-> "returned",
                  value |-> [ i \in 1..Len(order) |-> Snapshot(heap[tasks[order[i]]]) ]]
    /\ UNCHANGED <<now, heap, nextId, tasks, order, running, shutdown, pc,
                   wakeAt, runs, results, unregisterRaised>>

\* The caller of list_tasks assigns to keys of every dict it was given.  The
\* dicts are objects list_tasks created, holding strings and integers: no
\* record is reached through them.
SnapshotMutated ==
    /\ listed.at = "returned"
    /\ listed.value # << >>
    /\ listed' = [at |-> "mutated",
                  value |-> [ i \in DOMAIN listed.value |->
                                [listed.value[i] EXCEPT !.status = RUNNING,
                                                        !.error_count = @ + 1,
                                                        !.next_run = None] ]]
    /\ UNCHANGED <<now, heap, nextId, tasks, order, running, shutdown, pc,
                   wakeAt, runs, results, unregisterRaised>>

\* The caller drops the list.
SnapshotDropped ==
    /\ listed.at # "none"
    /\ listed' = NoList
    /\ UNCHANGED <<now, heap, nextId, tasks, order, running, shutdown, pc,
                   wakeAt, runs, results, unregisterRaised>>

\* -------------------------------------------------------- dispatch loop
\* A due-scan that takes a failed record for finished.
TasksToRun_SkipsFailed ==
    { id \in Range(tasks) : /\ should_run(heap[id], now)
                            /\ heap[id].status \notin {RUNNING, FAILED} }

\* The due-scan of process_tasks: the records of self.tasks.values() with
\* task.should_run() and task.status != TaskStatus.RUNNING.
TasksToRun ==
    { id \in Range(tasks) : should_run(heap[id], now) /\ heap[id].status # RUNNING }

\* A gather that does not wait for the coroutines it launched.
GatherComplete_NoWait == TRUE

\* asyncio.gather(...) returns once every run_task it awaits has returned.
GatherComplete == InFlight = {}

\* A start() without its finally clause: the loop exits and the running flag
\* stays set.
LoopIteration_KeepsRunning(sd) ==
    IF sd
    THEN /\ pc' = "idle"
         /\ wakeAt' = NoTime
         /\ UNCHANGED <<running, runs>>
    ELSE /\ running' = TRUE
         /\ IF TasksToRun = {}
            THEN /\ pc' = "sleep"
                 /\ wakeAt' = now + TickInterval
                 /\ UNCHANGED runs
            ELSE /\ pc' = "gather"
                 /\ wakeAt' = NoTime
                 /\ runs' = [ id \in InFlight \cup TasksToRun |->
                                IF id \in TasksToRun THEN "start" ELSE runs[id] ]

\* One iteration of `while not self._shutdown_event.is_set()` up to its first
\* suspension: the due-scan, then either the gather or the sleep.  `sd` is
\* the value of the shutdown event at the loop test.
LoopIteration(sd) ==
    IF sd
    THEN /\ pc' = "idle"
         /\ running' = FALSE
         /\ wakeAt' = NoTime
         /\ UNCHANGED runs
    ELSE /\ running' = TRUE
         /\ IF TasksToRun = {}
            THEN /\ pc' = "sleep"
                 /\ wakeAt' = now + TickInterval
                 /\ UNCHANGED runs
            ELSE /\ pc' = "gather"
                 /\ wakeAt' = NoTime
                 /\ runs' = [ id \in InFlight \cup TasksToRun |->
                                IF id \in TasksToRun THEN "start" ELSE runs[id] ]

\* A start() without the test of the running flag.
Start_NoGuard ==
    /\ shutdown' = FALSE
    /\ LoopIteration(FALSE)
    /\ UNCHANGED <<now, heap, nextId, tasks, order, results, unregisterRaised, listed>>

\* AsyncScheduler.start
Start ==
    /\ IF running
       THEN UNCHANGED <<running, shutdown, pc, wakeAt, runs>>
       ELSE /\ shutdown' = FALSE
            /\ LoopIteration(FALSE)
    /\ UNCHANGED <<now, heap, nextId, tasks, order, results, unregisterRaised, listed>>

\* AsyncScheduler.stop, called on a scheduler that was started.
Stop ==
    /\ running
    /\ shutdown' = TRUE
    /\ UNCHANGED <<now, heap, nextId, tasks, order, running, pc, wakeAt, runs,
                   results, unregisterRaised, listed>>

\* A loop whose test does not read the shutdown event.
Tick_IgnoresShutdown ==
    /\ pc = "sleep"
    /\ now >= wakeAt
    /\ LoopIteration(FALSE)
    /\ UNCHANGED <<now, heap, nextId, tasks, order, shutdown, results,
                   unregisterRaised, listed>>

\* process_tasks resumes from asyncio.sleep(1) and runs its next iteration.
Tick ==
    /\ pc = "sleep"
    /\ now >= wakeAt
    /\ LoopIteration(shutdown)
    /\ UNCHANGED <<now, heap, nextId, tasks, order, shutdown, results,
                   unregisterRaised, listed>>

\* process_tasks resumes from the gather and goes to asyncio.sleep(1).
GatherDone ==
    /\ pc = "gather"
    /\ GatherComplete
    /\ pc' = "sleep"
    /\ wakeAt' = now + TickInterval
    /\ results' = << >>
    /\ UNCHANGED <<now, heap, nextId, tasks, order, running, shutdown, runs,
                   unregisterRaised, listed>>

\* An iteration without the try block: the exception leaves process_tasks,
\* and start() through its finally clause.
ScanRaises_Propagates ==
    /\ pc' = "idle"
    /\ wakeAt' = NoTime
    /\ running' = FALSE
    /\ UNCHANGED runs

\* The due-scan raises an Exception (a record whose next_run the application
\* replaced by a value that does not compare with a datetime, a registry
\* changed by another thread during the iteration): nothing was selected,
\* and the except branch of the loop logs the error and sleeps.
ScanRaises ==
    /\ pc' = "backoff"
    /\ wakeAt' = now + BackoffInterval
    /\ running' = TRUE
    /\ UNCHANGED runs

\* start() on a scheduler that is not running, the first due-scan raising.
StartRaises ==
    /\ ~running
    /\ shutdown' = FALSE
    /\ ScanRaises
    /\ UNCHANGED <<now, heap, nextId, tasks, order, results, unregisterRaised, listed>>

\* process_tasks resumes from either sleep, the shutdown event not set, and
\* the due-scan raises.
TickRaises ==
    /\ pc \in {"sleep", "backoff"}
    /\ now >= wakeAt
    /\ ~shutdown
    /\ ScanRaises
    /\ UNCHANGED <<now, heap, nextId, tasks, order, shutdown, results,
                   unregisterRaised, listed>>

\* process_tasks resumes from asyncio.sleep(5) and runs its next iteration.
TickAfterBackoff ==
    /\ pc = "backoff"
    /\ now >= wakeAt
    /\ LoopIteration(shutdown)
    /\ UNCHANGED <<now, heap, nextId, tasks, order, shutdown, results,
                   unregisterRaised, listed>>

\* ------------------------------------------------------------- run_task
\* A runner that is awaited to its end before the next one is started
\* (`for task in tasks_to_run: await self.run_task(task)`).
RunTaskStart_OneAtATime(id) ==
    /\ id \in InFlight
    /\ runs[id] = "start"
    /\ \A other \in InFlight : runs[other] = "start"
    /\ heap' = [heap EXCEPT ![id].status = RUNNING]
    /\ runs' = [runs EXCEPT ![id] = "body"]
    /\ UNCHANGED <<now, nextId, tasks, order, running, shutdown, pc, wakeAt,
                   results, unregisterRaised, listed>>

\* A run_task that awaits its work handle inside the `async with` block: the
\* lock is taken for as long as a work handle of the gather is executing.
RunTaskStart_LockOverBody(id) ==
    /\ id \in InFlight
    /\ runs[id] = "start"
    /\ \A other \in InFlight : runs[other] # "body"
    /\ heap' = [heap EXCEPT ![id].status = RUNNING]
    /\ runs' = [runs EXCEPT ![id] = "body"]
    /\ UNCHANGED <<now, nextId, tasks, order, running, shutdown, pc, wakeAt,
                   results, unregisterRaised, listed>>

\* async with self._task_lock: task.status = TaskStatus.RUNNING, then the
\* work handle is awaited: a coroutine function's coroutine directly, a plain
\* function through loop.run_in_executor, which runs it on a thread of the
\* default executor.  Either way run_task is suspended and the event loop
\* goes on with the other coroutines.
RunTaskStart(id) ==
    /\ id \in InFlight
    /\ runs[id] = "start"
    /\ heap' = [heap EXCEPT ![id].status = RUNNING]
    /\ runs' = [runs EXCEPT ![id] = "body"]
    /\ UNCHANGED <<now, nextId, tasks, order, running, shutdown, pc, wakeAt,
                   results, unregisterRaised, listed>>

\* The awaited work handle returns.
BodyReturns(id) ==
    /\ id \in InFlight
    /\ runs[id] = "body"
    /\ runs' = [runs EXCEPT ![id] = "returned"]
    /\ UNCHANGED <<now, heap, nextId, tasks, order, running, shutdown, pc,
                   wakeAt, results, unregisterRaised, listed>>

\* The awaited work handle raises an Exception.
BodyRaises(id) ==
    /\ id \in InFlight
    /\ runs[id] = "body"
    /\ runs' = [runs EXCEPT ![id] = "raised"]
    /\ UNCHANGED <<now, heap, nextId, tasks, order, running, shutdown, pc,
                   wakeAt, results, unregisterRaised, listed>>

\* A success path that recomputes next_run before it stores the new last_run.
CompletedTransition_StaleBase(task, t) ==
    [ update_next_run([task EXCEPT !.status = COMPLETED,
                                   !.error_count = 0,
                                   !.retries = 0], t)
      EXCEPT !.last_run = t ]

\* A success path that leaves the retry counter as the retry sequence left
\* it.
CompletedTransition_KeepsRetries(task, t) ==
    update_next_run([task EXCEPT !.status = COMPLETED,
                                 !.last_run = t,
                                 !.error_count = 0], t)

\* The statements of run_task after the work handle returned.
CompletedTransition(task, t) ==
    update_next_run([task EXCEPT !.status = COMPLETED,
                                 !.last_run = t,
                                 !.error_count = 0,
                                 !.retries = 0], t)

\* An except branch that allows one retry too many (<= for <).
FailedTransition_OffByOne(task, t) ==
    LET failed == [task EXCEPT !.status = FAILED, !.error_count = @ + 1]
    IN  IF failed.retries <= failed.max_retries
        THEN [failed EXCEPT !.retries = @ + 1,
                            !.next_run = t + failed.retry_delay]
        ELSE update_next_run([failed EXCEPT !.retries = 0], t)

\* An except branch that puts a retry on the schedule's next occurrence.
FailedTransition_RetryOnCadence(task, t) ==
    LET failed == [task EXCEPT !.status = FAILED, !.error_count = @ + 1]
    IN  IF failed.retries < failed.max_retries
        THEN update_next_run([failed EXCEPT !.retries = @ + 1], t)
        ELSE update_next_run([failed EXCEPT !.retries = 0], t)

\* An except branch that counts the failure and leaves the status as it was.
FailedTransition_KeepsStatus(task, t) ==
    LET failed == [task EXCEPT !.error_count = @ + 1]
    IN  IF failed.retries < failed.max_retries
        THEN [failed EXCEPT !.retries = @ + 1,
                            !.next_run = t + failed.retry_delay]
        ELSE update_next_run([failed EXCEPT !.retries = 0], t)

\* An except branch that retries whatever the budget.
FailedTransition_AlwaysRetries(task, t) ==
    [task EXCEPT !.status = FAILED,
                 !.error_count = @ + 1,
                 !.retries = @ + 1,
                 !.next_run = t + task.retry_delay]

\* A run_task without its except branch: the record is left as it was.
FailedTransition_NotCaught(task, t) == task

\* The except branch of run_task.
FailedTransition(task, t) ==
    LET failed == [task EXCEPT !.status = FAILED, !.error_count = @ + 1]
    IN  IF failed.retries < failed.max_retries
        THEN [failed EXCEPT !.retries = @ + 1,
                            !.next_run = t + failed.retry_delay]
        ELSE update_next_run([failed EXCEPT !.retries = 0], t)

\* A runner that looks its record up in the registry, by name, when the
\* work handle has ended.
Finish_UpdatesRegistered(id, task, result) ==
    /\ runs' = [ i \in InFlight \ {id} |-> runs[i] ]
    /\ heap' = Reachable([heap EXCEPT ![tasks[task.name]] = task], tasks, runs')
    /\ results' = results @@ (id :> result)
    /\ UNCHANGED <<now, nextId, tasks, order, running, shutdown, pc, wakeAt,
                   unregisterRaised, listed>>

\* The run_task coroutine ends and hands its result to the gather: the
\* record it has written to is the one it was given.
Finish(id, task, result) ==
    /\ runs' = [ i \in InFlight \ {id} |-> runs[i] ]
    /\ heap' = Reachable([heap EXCEPT ![id] = task], tasks, runs')
    /\ results' = results @@ (id :> result)
    /\ UNCHANGED <<now, nextId, tasks, order, running, shutdown, pc, wakeAt,
                   unregisterRaised, listed>>

\* run_task resumes after the work handle returned: lines 128-135.
RunTaskSuccess(id) ==
    /\ id \in InFlight
    /\ runs[id] = "returned"
    /\ Finish(id, CompletedTransition(heap[id], now), TRUE)

\* run_task resumes in its except branch: lines 137-154.
RunTaskFailure(id) ==
    /\ id \in InFlight
    /\ runs[id] = "raised"
    /\ Finish(id, FailedTransition(heap[id], now), FALSE)

\* ----------------------------------------------------------------- time
\* A step of the event loop that is ready to run takes no time: the clock
\* advances only while the loop sleeps, or awaits work handles that are
\* still executing.
Ready ==
    \/ pc \in {"sleep", "backoff"} /\ now >= wakeAt
    \/ pc = "gather" /\ GatherComplete
    \/ \E id \in InFlight : runs[id] # "body"

Advance ==
    /\ now < MaxTime
    /\ ~Ready
    /\ now' = now + 1
    /\ UNCHANGED <<heap, nextId, tasks, order, running, shutdown, pc, wakeAt,
                   runs, results, unregisterRaised, listed>>

\* --------------------------------------------------- time without an end
\* A clock that never stops, for the properties that need time to go on for
\* ever.  Two things keep the times the program holds in a finite range.
\* A run time that is past is moved forward by whole periods of the record's
\* schedule for as long as it stays past (a last_run: for as long as the
\* occurrence that follows it stays past): the program only compares a
\* next_run with now and only resolves the occurrence after a last_run, and
\* neither answer changes.  And the schedules repeat every CronCycle units,
\* so when the clock would pass MaxTime every time is moved back by
\* CronCycle: the differences between now, the wake-up time and the run
\* times, and the position of each in its schedule, are what they were.
Crons == { job.cron : job \in LiveJobs }

MaxCron == CHOOSE c \in Crons : \A d \in Crons : d <= c

\* The least common multiple of the periods (of at most two distinct ones).
CronCycle ==
    CHOOSE n \in 1..(MaxCron * MaxCron) :
        /\ \A c \in Crons : n % c = 0
        /\ \A m \in 1..(n - 1) : \E c \in Crons : m % c # 0

\* A next_run as it is held at time t.
AgeNextRun(next_run, cron, t) ==
    IF next_run = NoTime \/ next_run > t THEN next_run
    ELSE next_run + cron * ((t - next_run) \div cron)

\* A last_run as it is held at time t.
AgeLastRun(last_run, cron, t) ==
    IF last_run = NoTime \/ next_occurrence(cron, last_run) > t THEN last_run
    ELSE last_run + cron * ((t - next_occurrence(cron, last_run)) \div cron)

\* The clock reading, wake-up time or run time t after the clock has come to
\* time: moved back by a cycle when that is past MaxTime.
Rolled(t, time) ==
    IF t = NoTime \/ time <= MaxTime THEN t ELSE t - CronCycle

\* datetime.now() returns a later time.
AdvanceRolling ==
    /\ ~Ready
    /\ now' = Rolled(now + 1, now + 1)
    /\ wakeAt' = Rolled(wakeAt, now + 1)
    /\ heap' = [ id \in DOMAIN heap |->
                   [heap[id] EXCEPT
                      !.last_run = Rolled(AgeLastRun(@, heap[id].cron_expression,
                                                     now + 1), now + 1),
                      !.next_run = Rolled(AgeNextRun(@, heap[id].cron_expression,
                                                     now + 1), now + 1)] ]
    /\ UNCHANGED <<nextId, tasks, order, running, shutdown, pc, runs, results,
                   unregisterRaised, listed>>

\* -------------------------------------------------------- specification
Next ==
    \/ \E job \in Jobs : Schedule(job.name, job.cron)
    \/ \E job \in Jobs : AddTask(job.name, job.cron)
    \/ \E job \in JobsWithPolicy : AddTaskWithPolicy(job.name, job.cron, job)
    \/ Start
    \/ Stop
    \/ Tick
    \/ GatherDone
    \/ \E id \in InFlight : RunTaskStart(id)
    \/ \E id \in InFlight : BodyReturns(id)
    \/ \E id \in InFlight : BodyRaises(id)
    \/ \E id \in InFlight : RunTaskSuccess(id)
    \/ \E id \in InFlight : RunTaskFailure(id)
    \/ Advance

Spec == Init /\ [][Next]_vars

\* The same program with a caller that also tries to unregister tasks.
NextUnregister ==
    \/ Next
    \/ \E name \in Names : Unregister(name)

SpecUnregister == Init /\ [][NextUnregister]_vars

\* The same program with an application that also registers jobs whose cron
\* expression does not parse.
NextInvalidCron ==
    \/ Next
    \/ \E job \in InvalidJobs : ScheduleInvalidCron(job.name, job.cron)
    \/ \E job \in InvalidJobs : AddTaskInvalidCron(job.name, job.cron)

SpecInvalidCron == Init /\ [][NextInvalidCron]_vars

\* The program with every job registered under the default retry policy.
NextDefaultPolicy ==
    \/ \E job \in Jobs : Schedule(job.name, job.cron)
    \/ \E job \in Jobs : AddTask(job.name, job.cron)
    \/ Start
    \/ Stop
    \/ Tick
    \/ GatherDone
    \/ \E id \in InFlight : RunTaskStart(id)
    \/ \E id \in InFlight : BodyReturns(id)
    \/ \E id \in InFlight : BodyRaises(id)
    \/ \E id \in InFlight : RunTaskSuccess(id)
    \/ \E id \in InFlight : RunTaskFailure(id)
    \/ Advance

\* That program with a caller of list_tasks.  list_tasks is not a coroutine,
\* and the caller uses the list before it suspends: no other step of the
\* event loop runs while the list is held.
NextListTasks ==
    \/ listed = NoList /\ NextDefaultPolicy
    \/ ListTasks
    \/ SnapshotMutated
    \/ SnapshotDropped

SpecListTasks == Init /\ [][NextListTasks]_vars

\* The awaited work handle raises, the record's error_count being below its
\* bound.
BodyRaisesBounded(id) ==
    /\ id \in InFlight
    /\ heap[id].error_count < MaxErrors
    /\ BodyRaises(id)

\* The application registers a job it has not registered yet.
AddTaskOnce(job) ==
    /\ job.name \notin DOMAIN tasks
    /\ AddTaskWithPolicy(job.name, job.cron, job)

\* The program under a clock that never stops and an event loop that runs
\* every coroutine that is ready: the dispatch loop resumes when its sleep or
\* its gather has ended, each run_task takes its next step, every work
\* handle ends (by returning or by raising), and time goes on.  Nothing is
\* assumed of the callers of the registration calls, start and stop.
NextLive ==
    \/ \E job \in LiveJobs : AddTaskOnce(job)
    \/ Start
    \/ Stop
    \/ Tick
    \/ GatherDone
    \/ \E id \in InFlight : RunTaskStart(id)
    \/ \E id \in InFlight : BodyReturns(id)
    \/ \E id \in InFlight : BodyRaisesBounded(id)
    \/ \E id \in InFlight : RunTaskSuccess(id)
    \/ \E id \in InFlight : RunTaskFailure(id)
    \/ AdvanceRolling

\* A coroutine of the scheduler that is ready to run takes its step.
EventLoopStep ==
    \/ Tick
    \/ GatherDone
    \/ \E id \in InFlight :
          RunTaskStart(id) \/ RunTaskSuccess(id) \/ RunTaskFailure(id)

\* A work handle that is being awaited ends.
WorkHandleEnds ==
    \E id \in InFlight : BodyReturns(id) \/ BodyRaisesBounded(id)

Fairness ==
    /\ WF_vars(EventLoopStep)
    /\ WF_vars(WorkHandleEnds)
    /\ WF_vars(AdvanceRolling)

SpecLive == Init /\ [][NextLive]_vars /\ Fairness

\* That program with due-scans that can raise: any iteration of the loop may
\* take its except branch.  The event loop resumes process_tasks from the
\* sleep of that branch as from any other.
NextTickFault ==
    \/ NextLive
    \/ StartRaises
    \/ TickRaises
    \/ TickAfterBackoff

FairnessTickFault ==
    /\ WF_vars(EventLoopStep \/ TickAfterBackoff)
    /\ WF_vars(WorkHandleEnds)
    /\ WF_vars(AdvanceRolling)

SpecTickFault == Init /\ [][NextTickFault]_vars /\ FairnessTickFault

\* ================================================================ claims
\* The registered record of a name, and whether the due-scan would admit it.
Due(id) == should_run(heap[id], now) /\ heap[id].status # RUNNING

\* C1: in every reachable state, for every task name, at most one invocation
\* of a record registered under that name is in flight, however long the
\* invocation lasts compared with the tick interval.
C1_AtMostOneInFlight ==
    \A name \in Names :
        Cardinality({ id \in InFlight : heap[id].name = name }) <= 1

\* C1 witness: an invocation has been executing for two tick intervals or
\* more, and the record registered under its name in the meantime is due.
C1_Witness ==
    \E id \in InFlight : \E other \in Range(tasks) :
        /\ runs[id] = "body"
        /\ now >= heap[id].next_run + 2 * TickInterval
        /\ other # id
        /\ heap[other].name = heap[id].name
        /\ Due(other)

\* C2: the loop starts the next due-scan without waiting for the invocations
\* it launched: a registered task that is due and not being invoked, while an
\* invocation of another task is still executing, is selected by the next
\* tick, so it is never left due for a whole tick interval.
C2_NoDelayBehindInFlight ==
    \A id \in Range(tasks) :
        ( /\ Due(id)
          /\ id \notin InFlight
          /\ \E other \in InFlight :
                /\ runs[other] = "body"
                /\ heap[other].name # heap[id].name )
        => now < heap[id].next_run + TickInterval

\* The run_task of record id ends in this step after its work handle raised
\* (Failed) or returned (Succeeded).
Failed(id) == id \in InFlight /\ runs[id] = "raised" /\ id \notin DOMAIN runs'
Succeeded(id) == id \in InFlight /\ runs[id] = "returned" /\ id \notin DOMAIN runs'
\* The record is still referred to after the step.
Kept(id) == id \in DOMAIN heap'
\* The runtime state the constructor gives a record.
FreshState(task) ==
    /\ task.status = PENDING
    /\ task.last_run = NoTime
    /\ task.retries = 0
    /\ task.error_count = 0

\* C3: a task with retry budget M whose every invocation fails (it has never
\* succeeded, so last_run is absent) counts its failures in error_count and
\* cycles retry_count through 1..M and back to 0: each of the M retry
\* failures adds 1 to retry_count and sets next_run to the failure time plus
\* retry_delay, the failure after them resets retry_count to 0 and sets
\* next_run to the next regular occurrence, so after M+1 failures error_count
\* is M+1 and retry_count is 0.
C3_AlwaysFailing ==
    /\ [](\A id \in DOMAIN heap :
            heap[id].last_run = NoTime =>
                heap[id].retries = heap[id].error_count % (heap[id].max_retries + 1))
    /\ [][\A id \in InFlight :
            (Failed(id) /\ Kept(id) /\ heap[id].last_run = NoTime) =>
                /\ heap'[id].error_count = heap[id].error_count + 1
                /\ IF heap[id].retries < heap[id].max_retries
                   THEN /\ heap'[id].retries = heap[id].retries + 1
                        /\ heap'[id].next_run = now + heap[id].retry_delay
                   ELSE /\ heap'[id].retries = 0
                        /\ heap'[id].next_run =
                              next_occurrence(heap[id].cron_expression, now)]_vars

\* C3 witness: a task with max_retries = 2 that never succeeded has failed
\* three times: error_count is 3, retry_count is back to 0 and next_run is
\* a regular occurrence of its schedule.
C3_Witness ==
    \E id \in DOMAIN heap :
        /\ heap[id].last_run = NoTime
        /\ heap[id].max_retries = 2
        /\ heap[id].error_count = 3
        /\ heap[id].retries = 0
        /\ heap[id].status = FAILED
        /\ heap[id].next_run = next_occurrence(heap[id].cron_expression, now)

\* C4: a success of a task that has no failure on its counters leaves
\* retry_count and error_count at 0 and sets next_run to the occurrence of
\* the schedule that follows the completion time, which is strictly later
\* than the next_run the task had before the cycle.
C4_AlwaysSucceeding ==
    [][\A id \in InFlight :
        ( /\ Succeeded(id) /\ Kept(id)
          /\ heap[id].retries = 0
          /\ heap[id].error_count = 0 ) =>
            /\ heap'[id].retries = 0
            /\ heap'[id].error_count = 0
            /\ heap'[id].next_run > heap[id].next_run
            /\ heap'[id].next_run =
                  next_occurrence(heap[id].cron_expression, now)]_vars

\* C4 witness: a task completed a cycle after an earlier success, with both
\* counters at 0.
C4_Witness ==
    \E id \in DOMAIN heap :
        /\ heap[id].status = COMPLETED
        /\ heap[id].retries = 0
        /\ heap[id].error_count = 0
        /\ heap[id].last_run >= 2 * heap[id].cron_expression
        /\ heap[id].next_run > heap[id].last_run

\* C5: error_count never decreases: a failed invocation adds exactly 1 and a
\* successful invocation leaves it unchanged.
C5_ErrorCountMonotonic ==
    [][\A id \in DOMAIN heap :
        Kept(id) =>
            /\ heap'[id].error_count >= heap[id].error_count
            /\ Failed(id) => heap'[id].error_count = heap[id].error_count + 1
            /\ Succeeded(id) => heap'[id].error_count = heap[id].error_count]_vars

\* C6: after every finished invocation, whether it succeeded or raised,
\* last_run is the time of that invocation attempt.
C6_LastRunIsLastAttempt ==
    [][\A id \in InFlight :
        ((Failed(id) \/ Succeeded(id)) /\ Kept(id)) =>
            heap'[id].last_run = now]_vars

\* C7: every finished invocation leaves next_run strictly later than the
\* next_run value that admitted the invocation.
C7_NextRunStrictlyIncreases ==
    [][\A id \in InFlight :
        ((Failed(id) \/ Succeeded(id)) /\ Kept(id)) =>
            heap'[id].next_run > heap[id].next_run]_vars

C9_RegistrationOverwrites ==
    /\ [](\A job \in Jobs :
            (job.name \in DOMAIN tasks /\ nextId <= MaxObjects) =>
                /\ ENABLED Schedule(job.name, job.cron)
                /\ ENABLED AddTask(job.name, job.cron))
    /\ [][nextId' # nextId =>
        /\ nextId \in DOMAIN heap'
        /\ LET name == heap'[nextId].name IN
            /\ nextId' = nextId + 1
            /\ tasks'[name] = nextId
            /\ FreshState(heap'[nextId])
            /\ DOMAIN tasks' = DOMAIN tasks \cup {name}
            /\ name \in DOMAIN tasks =>
                  /\ Cardinality(DOMAIN tasks') = Cardinality(DOMAIN tasks)
                  /\ tasks[name] \notin Range(tasks')
                  /\ order' = order
            /\ \A n \in DOMAIN tasks \ {name} :
                  /\ tasks'[n] = tasks[n]
                  /\ heap'[tasks[n]] = heap[tasks[n]]]_vars

\* C9 witness: a name was registered, then another name, then the first
\* name again: the registry holds the third record under the first name, in
\* its first position and fresh, and the record of the other name, which has
\* run.
C9_Witness ==
    /\ nextId = 4
    /\ DOMAIN tasks = Names
    /\ \E n \in Names : \E m \in Names \ {n} :
          /\ order = <<n, m>>
          /\ tasks[m] = 2
          /\ tasks[n] = 3
          /\ FreshState(heap[3])
          /\ heap[tasks[m]].status = COMPLETED

\* C10: once unregister(name) was called during an invocation of the task,
\* the record it was to remove is no longer in the registry that list_tasks
\* reads, and no tick selects it again.
C10_UnregisterRemoves ==
    unregisterRaised # 0 =>
        /\ unregisterRaised \notin Range(tasks)
        /\ ~(unregisterRaised \in InFlight /\ runs[unregisterRaised] = "start")

\* C11: a registration stores under its name a record with status Pending,
\* last_run absent, both counters 0 and next_run the first occurrence of the
\* schedule strictly after the registration time (an occurrence, later than
\* now, at most one period away); the record is not selected by that step; a
\* record that was never invoked is in flight only once its next_run has
\* come; and next_run is never absent for a registered record.
C11_FreshRecord ==
    /\ [](\A id \in Range(tasks) : heap[id].next_run # NoTime)
    /\ [](\A id \in InFlight :
            heap[id].status = PENDING => now >= heap[id].next_run)
    /\ [][nextId' # nextId =>
        /\ nextId \in DOMAIN heap'
        /\ LET task == heap'[nextId] IN
            /\ tasks'[task.name] = nextId
            /\ FreshState(task)
            /\ task.next_run > now
            /\ task.next_run % task.cron_expression = 0
            /\ task.next_run - now <= task.cron_expression
            /\ nextId \notin DOMAIN runs']_vars

\* C11 witness: while the loop sleeps, a record registered after time 0 (its
\* first occurrence is not the first of its schedule) is fresh, not yet due
\* and not selected.
C11_Witness ==
    /\ running /\ pc = "sleep"
    /\ \E id \in Range(tasks) :
          /\ FreshState(heap[id])
          /\ heap[id].next_run >= 2 * heap[id].cron_expression
          /\ now < heap[id].next_run
          /\ now >= heap[id].next_run - heap[id].cron_expression + 1
          /\ id \notin InFlight

\* C12: a registration call that raised for its cron expression (an object
\* was constructed and none was stored) leaves the registry exactly as it
\* was: the same names in the same order, each with the record it had, every
\* record with the runtime state it had; and the invocations in flight, their
\* results and the dispatch loop are where they were.
C12_InvalidCronChangesNothing ==
    [][(nextId' # nextId /\ nextId \notin DOMAIN heap') =>
        /\ tasks' = tasks
        /\ order' = order
        /\ heap' = heap
        /\ runs' = runs
        /\ results' = results
        /\ pc' = pc /\ wakeAt' = wakeAt
        /\ running' = running /\ shutdown' = shutdown
        /\ now' = now]_vars

\* C12 witness: the second object constructed was never stored, while the
\* name it was to be registered under holds the first record, which is being
\* invoked by the running loop, and another task is registered.
C12_Witness ==
    /\ nextId = 4
    /\ 2 \notin DOMAIN heap
    /\ "a" \in DOMAIN tasks /\ tasks["a"] = 1
    /\ "b" \in DOMAIN tasks /\ tasks["b"] = 3
    /\ running /\ pc = "gather"
    /\ 1 \in InFlight /\ runs[1] = "body"

\* C13: a call of list_tasks changes no record, no registry state and
\* nothing of the loop, and returns one dict per registered name, in the
\* order of the registry, whose name, cron, status, last_run, next_run,
\* error_count and retries are those of the record registered under the name
\* at the call (a run time as its text, an absent one as None); and a caller
\* that writes into the dicts changes no record and no registry state.
C13_ListTasksIsProjection ==
    /\ [][(listed.at = "none" /\ listed'.at = "returned") =>
        /\ UNCHANGED <<now, heap, nextId, tasks, order, running, shutdown, pc,
                       wakeAt, runs, results>>
        /\ Len(listed'.value) = Cardinality(DOMAIN tasks)
        /\ \A i \in DOMAIN listed'.value :
            LET snap == listed'.value[i] IN
            /\ snap.name = order[i]
            /\ snap.name \in DOMAIN tasks
            /\ \A j \in DOMAIN listed'.value :
                  j # i => listed'.value[j].name # snap.name
            /\ LET task == heap[tasks[snap.name]] IN
                /\ snap.cron = task.cron_expression
                /\ snap.status = task.status
                /\ (snap.last_run = None) <=> (task.last_run = NoTime)
                /\ snap.last_run # None => snap.last_run[2] = task.last_run
                /\ (snap.next_run = None) <=> (task.next_run = NoTime)
                /\ snap.next_run # None => snap.next_run[2] = task.next_run
                /\ snap.error_count = task.error_count
                /\ snap.retries = task.retries]_vars
    /\ [][(listed.at = "returned" /\ listed'.at = "mutated") =>
        UNCHANGED <<now, heap, nextId, tasks, order, running, shutdown, pc,
                    wakeAt, runs, results>>]_vars

\* C13 witness: a caller holds the list of two tasks, registered in the order
\* b, a, and has written into the dict of one that has run; the dict now
\* differs from the record, which is as it was.
C13_Witness ==
    /\ listed.at = "mutated"
    /\ order = <<"b", "a">>
    /\ Len(listed.value) = 2
    /\ running
    /\ \E i \in DOMAIN listed.value :
        LET task == heap[tasks[order[i]]] IN
        /\ task.last_run # NoTime
        /\ task.status = COMPLETED
        /\ listed.value[i].status = RUNNING
        /\ listed.value[i].error_count = task.error_count + 1
        /\ listed.value[i].last_run = isoformat(task.last_run)

\* C14: while the shutdown signal is set on a running scheduler, no step
\* selects a record (the set of invocations in flight does not grow), the
\* loop does not scan (from its sleep it can only exit, from its gather it
\* can only go to its sleep), and no invocation is cancelled: each one in
\* flight can take its next step, moves only forward, and leaves only by its
\* Completed or Failed transition, handing its result to the gather.
C14_StopLaunchesNothing ==
    /\ []((shutdown /\ running) =>
            \A id \in InFlight :
                ENABLED (RunTaskStart(id) \/ BodyReturns(id) \/ BodyRaises(id)
                         \/ RunTaskSuccess(id) \/ RunTaskFailure(id)))
    /\ [][(shutdown /\ running) =>
        /\ DOMAIN runs' \subseteq DOMAIN runs
        /\ pc = "sleep" => (pc' = "sleep" /\ wakeAt' = wakeAt)
                           \/ (pc' = "idle" /\ ~running')
        /\ pc = "gather" => pc' \in {"gather", "sleep"}
        /\ \A id \in InFlight :
            /\ id \in DOMAIN runs' =>
                  \/ runs'[id] = runs[id]
                  \/ runs[id] = "start" /\ runs'[id] = "body"
                  \/ runs[id] = "body" /\ runs'[id] \in {"returned", "raised"}
            /\ id \notin DOMAIN runs' =>
                  /\ Failed(id) \/ Succeeded(id)
                  /\ id \in DOMAIN results'
                  /\ results'[id] = Succeeded(id)
                  /\ Kept(id) =>
                        heap'[id].status = IF Succeeded(id) THEN COMPLETED
                                                            ELSE FAILED]_vars

\* C14 witness: the shutdown signal is set, the loop is still in its gather,
\* one invocation has ended with its transition and handed over its result,
\* another is still executing, and a registered record that is due, which a
\* scan would select, is not in flight.
C14_Witness ==
    /\ shutdown /\ running /\ pc = "gather"
    /\ \E done \in DOMAIN results : \E id \in InFlight :
          \E waiting \in Range(tasks) \ InFlight :
              /\ done \in DOMAIN heap
              /\ heap[done].last_run = now
              /\ runs[id] = "body"
              /\ waiting # done
              /\ Due(waiting)

\* C15: once stop() has set the shutdown signal on a running scheduler, with
\* every work handle ending and time going on, the loop exits: the running
\* flag becomes False (start() has returned through its finally clause).
C15_StopTerminates ==
    (shutdown /\ running) ~> (~running /\ pc = "idle")

\* C15 witness: the loop has exited on the shutdown signal after it had run
\* a task to its end: the running flag is False and the signal is still set.
C15_Witness ==
    /\ shutdown /\ ~running /\ pc = "idle"
    /\ InFlight = {}
    /\ \E id \in Range(tasks) : heap[id].status \in {COMPLETED, FAILED}

\* C16: with every work handle ending and time going on, a registered task
\* whose invocation has ended, in success or in failure, with or without
\* retries left, is invoked again, unless the loop is stopped before.
C16_NoTerminalState ==
    \A name \in Names :
        ( /\ name \in DOMAIN tasks
          /\ tasks[name] \notin InFlight
          /\ heap[tasks[name]].status \in {COMPLETED, FAILED} )
        ~> ( \/ ~running
             \/ shutdown
             \/ /\ name \in DOMAIN tasks
                /\ tasks[name] \in InFlight
                /\ runs[tasks[name]] = "body" )

\* C16 witness: a task that failed until its retry budget was exhausted
\* (error_count is max_retries + 1, retry_count is back to 0) is being
\* invoked again by the running loop.
C16_Witness ==
    /\ running /\ ~shutdown
    /\ \E id \in InFlight \cap Range(tasks) :
          /\ runs[id] = "body"
          /\ heap[id].status = RUNNING
          /\ heap[id].error_count = heap[id].max_retries + 1
          /\ heap[id].retries = 0

\* C17: when the due-scan has released the registry lock, every record it
\* selected has status Running: no record is selected for launch (in flight)
\* with a status other than Running.
C17_SelectedIsRunning ==
    \A id \in InFlight : heap[id].status = RUNNING

\* The step is a due-scan: start() entering the loop, or the loop resuming
\* from its sleep with the shutdown signal not set.
IsScan ==
    \/ ~running /\ running'
    \/ pc = "sleep" /\ ~shutdown /\ (pc' = "gather" \/ wakeAt' # wakeAt)

\* C18: the invocations a step launches are those of a due-scan, and a
\* due-scan launches exactly the registered records with now >= next_run and
\* a status other than Running: none that fails the guard, and all that
\* satisfy it; each gets one run_task, not yet started.
C18_AdmissionGuard ==
    [][(IsScan \/ DOMAIN runs' \ DOMAIN runs # {}) =>
        /\ IsScan
        /\ DOMAIN runs' \ DOMAIN runs =
              { id \in Range(tasks) : /\ heap[id].next_run # NoTime
                                      /\ now >= heap[id].next_run
                                      /\ heap[id].status # RUNNING }
        /\ \A id \in DOMAIN runs' \ DOMAIN runs : runs'[id] = "start"
        /\ \A id \in DOMAIN runs : id \in DOMAIN runs' /\ runs'[id] = runs[id]]_vars

\* C18 witness: a scan has just launched a record that had run before and is
\* due again, and has left out a registered record that is not yet due.
C18_Witness ==
    /\ pc = "gather"
    /\ \E id \in InFlight : \E other \in Range(tasks) \ InFlight :
          /\ runs[id] = "start"
          /\ heap[id].status = COMPLETED
          /\ now >= heap[id].next_run
          /\ now < heap[other].next_run

\* C19: a failure with the retry budget exhausted (retry_count equal to
\* max_retries before it) resets retry_count to 0 and sets next_run to the
\* occurrence of the schedule that follows the failure time, strictly later
\* than that time, whether or not the task succeeded before.
C19_ExhaustedResumesCadence ==
    [][\A id \in InFlight :
        (Failed(id) /\ Kept(id) /\ heap[id].retries = heap[id].max_retries) =>
            /\ heap'[id].retries = 0
            /\ heap'[id].next_run = next_occurrence(heap[id].cron_expression, now)
            /\ heap'[id].next_run > now]_vars

\* C20: a failure with retries left (retry_count below max_retries) adds
\* exactly 1 to retry_count and sets next_run to the failure time plus
\* retry_delay; a record waiting for a retry is selected only when that time
\* has come, and every scan at or after it selects the record.
C20_RetryAfterDelay ==
    /\ [](\A id \in InFlight :
            (runs[id] = "start" /\ heap[id].status = FAILED /\ heap[id].retries > 0)
                => now >= heap[id].next_run)
    /\ [][/\ \A id \in InFlight :
              (Failed(id) /\ Kept(id) /\ heap[id].retries < heap[id].max_retries) =>
                  /\ heap'[id].retries = heap[id].retries + 1
                  /\ heap'[id].next_run = now + heap[id].retry_delay
          /\ IsScan =>
              \A id \in Range(tasks) :
                  ( /\ heap[id].status = FAILED
                    /\ heap[id].retries > 0
                    /\ now >= heap[id].next_run ) =>
                      id \in DOMAIN runs' /\ runs'[id] = "start"]_vars

\* C20 witness: a record that failed with a retry left is selected for its
\* retry at the failure time plus its delay, a time that is no occurrence of
\* its schedule.
C20_Witness ==
    \E id \in InFlight \cap Range(tasks) :
        /\ runs[id] = "start"
        /\ heap[id].status = FAILED
        /\ heap[id].retries = 1
        /\ heap[id].next_run = now
        /\ heap[id].next_run % heap[id].cron_expression # 0

\* C21: a successful invocation sets last_run to the completion time, resets
\* retry_count to 0 whatever it was, and sets next_run to the occurrence of
\* the schedule that follows the new last_run, which is strictly later than
\* the completion time.
C21_SuccessTransition ==
    [][\A id \in InFlight :
        (Succeeded(id) /\ Kept(id)) =>
            /\ heap'[id].last_run = now
            /\ heap'[id].retries = 0
            /\ heap'[id].next_run =
                  next_occurrence(heap[id].cron_expression, heap'[id].last_run)
            /\ heap'[id].next_run > now]_vars

\* C21 witness: a retry (run at a time that is no occurrence of the schedule,
\* under a retry policy with a delay shorter than the period) has just
\* succeeded: retry_count is 0 again, last_run is the completion time and
\* next_run the occurrence after it.
C21_Witness ==
    \E id \in DOMAIN results \cap Range(tasks) :
        /\ results[id] = TRUE
        /\ heap[id].status = COMPLETED
        /\ heap[id].retry_delay < heap[id].cron_expression
        /\ heap[id].last_run = now
        /\ heap[id].last_run % heap[id].cron_expression # 0
        /\ heap[id].retries = 0
        /\ heap[id].next_run = next_occurrence(heap[id].cron_expression, now)

\* C22: whenever no invocation of a registered task is in flight, the status
\* list_tasks reports for it is Pending: Completed and Failed do not outlast
\* the step that ends the invocation.
C22_IdleIsPending ==
    \A id \in Range(tasks) :
        id \notin InFlight => Snapshot(heap[id]).status = PENDING

TaskLockHeld ==
    \/ IsScan
    \/ \E id \in InFlight :
          runs[id] = "start" /\ id \in DOMAIN runs' /\ runs'[id] = "body"

\* C24: every step that changes the registry mapping or the state of a
\* record (a registration, the marking of a selected record, the transition
\* after an invocation) runs while the registry lock is held.
C24_MutationsUnderLock ==
    [][(tasks' # tasks \/ order' # order \/ heap' # heap) => TaskLockHeld]_vars

\* C25: an iteration of the loop that begins with the shutdown signal not
\* set never ends the loop, whether its due-scan raises or not; a due-scan
\* that raises selects nothing, changes no record and leaves the loop in its
\* backoff sleep, still running, until the failure time plus the backoff
\* interval; the backoff sleep ends; and the loop then runs its next
\* iteration: it exits if the shutdown signal is set, and scans again if not.
C25_TickFaultBacksOff ==
    /\ [](pc = "backoff" => running /\ InFlight = {})
    /\ [][( /\ pc \in {"sleep", "backoff"} /\ now >= wakeAt /\ ~shutdown
            /\ (pc' # pc \/ wakeAt' # wakeAt) ) =>
              running' /\ pc' \in {"sleep", "gather", "backoff"}]_vars
    /\ [][( /\ pc' = "backoff" /\ now' = now
            /\ (pc # "backoff" \/ wakeAt' # wakeAt) ) =>
              /\ running'
              /\ wakeAt' = now + BackoffInterval
              /\ UNCHANGED <<heap, tasks, order, runs, results>>]_vars
    /\ [][(pc = "backoff" /\ pc' # "backoff") =>
              /\ now >= wakeAt
              /\ IF shutdown
                 THEN pc' = "idle" /\ ~running'
                 ELSE /\ running'
                      /\ DOMAIN runs' = TasksToRun
                      /\ pc' = IF TasksToRun = {} THEN "sleep" ELSE "gather"]_vars
    /\ (pc = "backoff" /\ now < wakeAt) ~> (pc # "backoff" \/ now >= wakeAt)
    /\ (pc = "backoff" /\ now >= wakeAt) ~> (pc # "backoff" \/ now < wakeAt)

\* C25 witness: a due-scan has raised after the loop had run a task, the
\* backoff sleep has ended with the shutdown signal not set, and the task is
\* due again: the next step of the loop is another due-scan.
C25_Witness ==
    /\ running /\ ~shutdown
    /\ pc = "backoff" /\ now >= wakeAt
    /\ \E id \in Range(tasks) :
          /\ heap[id].status = COMPLETED
          /\ Due(id)

\* The run_task of record id takes a step.
RunTaskStep(id) ==
    \/ RunTaskStart(id)
    \/ BodyReturns(id) \/ BodyRaises(id)
    \/ RunTaskSuccess(id) \/ RunTaskFailure(id)

\* C26: while the plain function of a selected task is executing (on its
\* worker thread), every other invocation of the same gather can take its
\* next step, whatever that is: start, end of its work handle, success or
\* failure transition; and a step of one invocation changes neither the
\* position nor the record of another, nor what the loop awaits.
C26_ConcurrentInvocations ==
    /\ [](\A id \in InFlight :
            (runs[id] = "body" /\ ~is_async(heap[id])) =>
                \A other \in InFlight \ {id} : ENABLED RunTaskStep(other))
    /\ [][\A id \in InFlight :
            (runs[id] = "body" /\ ~is_async(heap[id])
               /\ id \in DOMAIN runs' /\ runs'[id] = "body" /\ runs' # runs) =>
                /\ heap'[id] = heap[id]
                /\ now' = now
                /\ pc' = pc
                /\ \A other \in InFlight \ {id} :
                      other \notin DOMAIN runs' =>
                          /\ other \in DOMAIN results'
                          /\ Kept(other) =>
                                heap'[other].status \in {COMPLETED, FAILED}]_vars

\* C26 witness: two tasks were selected by one tick; the one with the plain
\* function is still executing its body two tick intervals after it was due,
\* and the other has started, finished and made its transition in the same
\* gather.
C26_Witness ==
    /\ pc = "gather"
    /\ \E id \in InFlight : \E other \in DOMAIN results \cap Range(tasks) :
          /\ runs[id] = "body"
          /\ ~is_async(heap[id])
          /\ is_async(heap[other])
          /\ other \notin InFlight
          /\ heap[other].status = COMPLETED
          /\ heap[other].last_run >= heap[id].next_run + 2 * TickInterval

\* C27: the running flag is True exactly while process_tasks is active; a
\* start() on a running scheduler changes nothing; while the scheduler is
\* running the shutdown signal, once set, is not cleared; and invocations are
\* launched only by the one loop, at its tick: while it awaits its gather or
\* its sleep has not ended, no step launches anything or moves the loop.
C27_SingleLoop ==
    /\ [](running <=> pc # "idle")
    /\ [](running => ENABLED Start)
    /\ [][(running /\ Start) => UNCHANGED vars]_vars
    /\ [][(running /\ shutdown) => shutdown']_vars
    /\ [][(running /\ pc = "gather") =>
              /\ DOMAIN runs' \subseteq DOMAIN runs
              /\ pc' \in {"gather", "sleep"}
              /\ running']_vars
    /\ [][(running /\ pc = "sleep" /\ now < wakeAt) =>
              /\ runs' = runs
              /\ pc' = pc /\ wakeAt' = wakeAt
              /\ running']_vars

\* C27 witness: stop() has set the shutdown signal and the loop has not yet
\* come to its test: it still awaits an invocation, and a task is due that a
\* second loop would select.
C27_Witness ==
    /\ running /\ shutdown /\ pc = "gather"
    /\ \E id \in InFlight : runs[id] = "body"
    /\ \E id \in Range(tasks) \ InFlight : Due(id)

\* C28: in every reachable state every record has 0 <= retry_count <=
\* max_retries, max_retries being the value the record got at its
\* registration (the default, or the one the caller of add_task assigned
\* before any invocation) and kept since.
C28_RetriesWithinBudget ==
    \A id \in DOMAIN heap :
        /\ 0 <= heap[id].retries
        /\ heap[id].retries <= heap[id].max_retries

\* C28 witness: a task that has succeeded once has since failed as often as
\* its budget allows: retry_count has reached max_retries, above 1.
C28_Witness ==
    \E id \in Range(tasks) :
        /\ heap[id].last_run # NoTime
        /\ heap[id].status = FAILED
        /\ heap[id].max_retries > 1
        /\ heap[id].retries = heap[id].max_retries

\* C29: a run_task that has been launched finds the registry lock free
\* whenever the event loop runs it (the loop, suspended in its gather, does
\* not hold it, and no run_task holds it while its work handle executes), and
\* with the event loop running every ready coroutine it does acquire the
\* lock and mark its record Running, however many were launched together.
C29_NoLockDeadlock ==
    /\ [](\A id \in InFlight :
            runs[id] = "start" => pc = "gather" /\ ENABLED RunTaskStart(id))
    /\ \A name \in Names :
          ( /\ name \in DOMAIN tasks
            /\ tasks[name] \in InFlight
            /\ runs[tasks[name]] = "start" )
          ~> ( /\ name \in DOMAIN tasks
               /\ tasks[name] \in InFlight
               /\ runs[tasks[name]] = "body"
               /\ heap[tasks[name]].status = RUNNING )

\* C29 witness: two invocations were launched by one tick; one has taken and
\* released the lock and awaits its work handle, the other has not yet run.
C29_Witness ==
    /\ pc = "gather"
    /\ \E id \in InFlight : \E other \in InFlight :
          /\ runs[id] = "body" /\ heap[id].status = RUNNING
          /\ runs[other] = "start" /\ heap[other].status # RUNNING

\* The record was replaced in the registry while its invocation is in flight.
Replaced(id) == id \in InFlight /\ id \notin Range(tasks)

\* C30: of a record replaced in the registry during its invocation and the
\* record registered in its place: no step of the replaced record's run_task
\* (its transition included) changes the new record or the registry; a
\* registered record in its fresh state that is not in flight is changed by
\* no step (by a scan neither: only its own run_task, launched by a later
\* tick, changes it); every record a step launches is a registered one; and
\* a record that has left the registry never comes back into it, so that no
\* later tick selects it.
C30_ReplacedRecordIsolated ==
    /\ [][\A id \in InFlight :
            (Replaced(id) /\ (id \notin DOMAIN runs' \/ runs'[id] # runs[id])) =>
                /\ tasks' = tasks /\ order' = order
                /\ \A new \in Range(tasks) :
                      new \in DOMAIN heap' /\ heap'[new] = heap[new]]_vars
    /\ [][\A id \in Range(tasks) \ InFlight :
            (FreshState(heap[id]) /\ id \in Range(tasks')) =>
                heap'[id] = heap[id]]_vars
    /\ [][/\ \A id \in DOMAIN runs' \ DOMAIN runs : id \in Range(tasks)
          /\ \A id \in 1..(nextId - 1) :
                id \notin Range(tasks) => id \notin Range(tasks')]_vars

\* C30 witness: the only name of the registry was registered again during an
\* invocation of its first record; that invocation has since failed and
\* handed its result to the gather, and the record now registered is fresh,
\* with both counters 0, and due.
C30_Witness ==
    /\ pc = "gather"
    /\ Cardinality(DOMAIN tasks) = 1
    /\ \E old \in DOMAIN results \ Range(tasks) : \E new \in Range(tasks) :
          /\ results[old] = FALSE
          /\ old < new
          /\ FreshState(heap[new])
          /\ new \notin InFlight
          /\ Due(new)

====
